---------------------------- MODULE Spec2Model ----------------------------
(***************************************************************************)
(* A model of performance_dashboard.py: the fetch handler of main() with   *)
(* its two cached fetch helpers, the parsing of the fetched text into the   *)
(* loaded dataset st.session_state.df_full, and the aggregations a          *)
(* dashboard pass derives from that dataset.                                *)
(*                                                                         *)
(* Text is modelled as TLA+ strings, on which TLC evaluates Len, Head,      *)
(* Tail, SubSeq and \o; lowercasing, title-casing, zero-padding, integer    *)
(* formatting and parsing and lexicographic comparison are computed         *)
(* character by character.  A fetched text is the sequence of its CSV       *)
(* lines.  A timestamp field of a line is the UTC calendar date             *)
(* pd.to_datetime yields for it, or NaT when it cannot be parsed; the       *)
(* time of day plays no part in any bucket and is left out.  Of the 17 CSV  *)
(* columns the model carries the six the program reads (record_id,          *)
(* rec_type, assignee_name, tags, start_date, end_date); record_id stands   *)
(* for the remaining columns where rows are compared.                       *)
(*                                                                         *)
(* A dashboard pass is one run of main(): the views are called in the      *)
(* order of lines 602-616 on the frames derived from the loaded dataset;   *)
(* the columns of the weekly roster summary are tracked from view to view,  *)
(* and a lookup of a column that is not there ends the pass (KeyError).     *)
(***************************************************************************)
EXTENDS Integers, Sequences, FiniteSets, TLC

VARIABLES
    df_full,        \* st.session_state.df_full: the loaded rows, in order
    prev_df,        \* df_full as the last fetch handler found it
    month_cache,    \* st.cache_data store of fetch_month_csv, by <<year, month>>
    months_cache,   \* st.cache_data store of fetch_months_csv, by <<year, months>>
    month_at,       \* when each entry of month_cache was stored
    months_at,      \* when each entry of months_cache was stored
    now,            \* the time, in seconds since the session began; it advances
                    \* in the cache specification only
    requests,       \* network requests issued by the last fetch handler, in order
    fetched,        \* per month the last fetch_months_csv body asked for: what came back
    raw_data,       \* raw_data of the last fetch handler (None or the joined text)
    status,         \* the branch the last fetch handler took
    last_click,     \* year, months and checkbox of the last click, and whether
                    \* the body of fetch_months_csv ran for it
    selection,      \* the week, month and year the last dashboard pass had selected
    email_click,    \* the email widgets of the last pass: button, recipients and
                    \* what mail.Send() did for each
    pass_log        \* what the email tool of the last pass reported, in order, and
                    \* the exception that ended the pass, if one did

vars == <<df_full, prev_df, month_cache, months_cache, month_at, months_at, now,
          requests, fetched,
          raw_data, status, last_click, selection, email_click, pass_log>>

---------------------------------------------------------------------------
(* Bounds of the model.                                                    *)

\* longest text (in lines) the data specification draws for its one fetch
MaxTextRows == 3

\* most recipients the mail specification selects for one batch
MaxRecipients == 2

\* the seconds between two moments of the cache specification, and its last
\* moment
TickSeconds == 300

MaxClock == 900

---------------------------------------------------------------------------
(* Characters and strings.                                                 *)

\* the characters the model's strings use, in ASCII order
Alphabet == " ,-.0123456789ABCDEFGHIJKLMNOPQRSTUVWXYZabcdefghijklmnopqrstuvwxyz"

UpperChars == "ABCDEFGHIJKLMNOPQRSTUVWXYZ"
LowerChars == "abcdefghijklmnopqrstuvwxyz"
DigitChars == "0123456789"

\* position of character c in string s, 0 when absent
RECURSIVE IndexFrom(_, _, _)
IndexFrom(c, s, i) ==
    IF i > Len(s) THEN 0
    ELSE IF SubSeq(s, i, i) = c THEN i
    ELSE IndexFrom(c, s, i + 1)

IndexOf(c, s) == IndexFrom(c, s, 1)

Chars(s) == {SubSeq(s, i, i) : i \in 1..Len(s)}

\* ord(c), up to an order-preserving renumbering
CharRankTable == [c \in Chars(Alphabet) |-> IndexOf(c, Alphabet)]

CharRank(c) == CharRankTable[c]

IsAlpha(c) == c \in Chars(UpperChars) \cup Chars(LowerChars)

LowerTable == [c \in Chars(UpperChars) |-> SubSeq(LowerChars, IndexOf(c, UpperChars), IndexOf(c, UpperChars))]

UpperTable == [c \in Chars(LowerChars) |-> SubSeq(UpperChars, IndexOf(c, LowerChars), IndexOf(c, LowerChars))]

LowerChar(c) == IF c \in DOMAIN LowerTable THEN LowerTable[c] ELSE c

UpperChar(c) == IF c \in DOMAIN UpperTable THEN UpperTable[c] ELSE c

\* str.lower()
RECURSIVE Lower(_)
Lower(s) == IF s = "" THEN "" ELSE LowerChar(Head(s)) \o Lower(Tail(s))

\* str.title(): a letter that follows a non-letter is uppercased, any other
\* letter lowercased
RECURSIVE TitleFrom(_, _)
TitleFrom(s, prevAlpha) ==
    IF s = "" THEN ""
    ELSE LET c == Head(s)
         IN  (IF prevAlpha THEN LowerChar(c) ELSE UpperChar(c))
                 \o TitleFrom(Tail(s), IsAlpha(c))

Title(s) == TitleFrom(s, FALSE)

\* needle in hay (substring)
IsSubstring(needle, hay) ==
    \E i \in 1..(Len(hay) - Len(needle) + 1) :
        SubSeq(hay, i, i + Len(needle) - 1) = needle

\* a < b as Python compares str
RECURSIVE StrLess(_, _)
StrLess(a, b) ==
    IF b = "" THEN FALSE
    ELSE IF a = "" THEN TRUE
    ELSE IF Head(a) = Head(b) THEN StrLess(Tail(a), Tail(b))
    ELSE CharRank(Head(a)) < CharRank(Head(b))

\* str(n) for n >= 0
RECURSIVE IntToStr(_)
IntToStr(n) ==
    IF n < 10 THEN SubSeq(DigitChars, n + 1, n + 1)
    ELSE IntToStr(n \div 10) \o SubSeq(DigitChars, (n % 10) + 1, (n % 10) + 1)

\* str.zfill(width)
RECURSIVE ZFill(_, _)
ZFill(s, width) == IF Len(s) >= width THEN s ELSE ZFill("0" \o s, width)

\* int(s) for a string of digits
RECURSIVE StrToIntAcc(_, _)
StrToIntAcc(s, acc) ==
    IF s = "" THEN acc
    ELSE StrToIntAcc(Tail(s), acc * 10 + (IndexOf(Head(s), DigitChars) - 1))

StrToInt(s) == StrToIntAcc(s, 0)

\* sorted(S) for a set of strings
RECURSIVE SortStrings(_)
SortStrings(S) ==
    IF S = {} THEN <<>>
    ELSE LET m == CHOOSE x \in S : \A y \in S \ {x} : StrLess(x, y)
         IN  <<m>> \o SortStrings(S \ {m})

\* the elements of a sequence
Range(s) == {s[i] : i \in DOMAIN s}

---------------------------------------------------------------------------
(* Constants and team definitions.                                         *)

ORIGINAL_CASE_TEAM ==
    << "ashish johnjeyaraj", "Basavaraj Awati", "K SAI KOUSHIK", "Kaustubh SINGH",
       "Manoj KUMAR R", "Mohammed Misba RIZVI", "Nagaraj JOTHI",
       "Paluvadi Venkata SAI UJWALA", "Pranam M", "Rajath Y C", "Shachi JAIN",
       "Shikha SINHA", "Shreesha J", "Sukanya DODDAGOUDAR" >>

UCS_BANGALORE_TEAM_LOWER == {Lower(name) : name \in Range(ORIGINAL_CASE_TEAM)}

LOWER_TO_ORIGINAL_CASE_MAP ==
    [low \in UCS_BANGALORE_TEAM_LOWER |->
        CHOOSE name \in Range(ORIGINAL_CASE_TEAM) : Lower(name) = low]

CONTRIBUTION_RECORD_TYPES == {"WO", "PTR", "TR"}

EXEMPTION_KEYWORDS == {"atc-mon", "atc-fup", "atc-ign", "atc-sup"}

\* LOWER_TO_ORIGINAL_CASE_MAP.get(name, name.title())
DisplayName(name) ==
    IF name \in DOMAIN LOWER_TO_ORIGINAL_CASE_MAP
    THEN LOWER_TO_ORIGINAL_CASE_MAP[name]
    ELSE Title(name)

\* str.contains(EXEMPTION_REGEX, na=False): the regex is the alternation of
\* the keywords, none of which holds a regex metacharacter
ContainsExemption(tags) == \E kw \in EXEMPTION_KEYWORDS : IsSubstring(kw, tags)

---------------------------------------------------------------------------
(* Calendar bucketing.                                                     *)

\* the value pd.to_datetime(errors='coerce') gives an unparsable field
NaT == [y |-> 0, m |-> 0, d |-> 0]

\* the value pd.read_csv gives an empty field
NaN == ""

IsLeap(y) == (y % 4 = 0 /\ y % 100 # 0) \/ y % 400 = 0

DaysInMonth(y, m) ==
    IF m = 2 THEN (IF IsLeap(y) THEN 29 ELSE 28)
    ELSE IF m \in {4, 6, 9, 11} THEN 30 ELSE 31

RECURSIVE DaysBeforeMonth(_, _)
DaysBeforeMonth(y, m) ==
    IF m = 1 THEN 0 ELSE DaysBeforeMonth(y, m - 1) + DaysInMonth(y, m - 1)

DayOfYear(date) == DaysBeforeMonth(date.y, date.m) + date.d

\* proleptic Gregorian ordinal, 0001-01-01 being day 1 (a Monday)
Ordinal(date) ==
    LET p == date.y - 1
    IN  365 * p + (p \div 4) - (p \div 100) + (p \div 400) + DayOfYear(date)

\* ISO weekday, Monday = 1 .. Sunday = 7
IsoWeekday(date) == ((Ordinal(date) - 1) % 7) + 1

\* number of ISO weeks of ISO year y
IsoWeeksInYear(y) ==
    LET jan1 == IsoWeekday([y |-> y, m |-> 1, d |-> 1])
    IN  IF jan1 = 4 \/ (jan1 = 3 /\ IsLeap(y)) THEN 53 ELSE 52

\* Series.dt.isocalendar(): the ISO year and ISO week of a date
IsoCalendar(date) ==
    LET w == (DayOfYear(date) - IsoWeekday(date) + 10) \div 7
    IN  IF w < 1 THEN [year |-> date.y - 1, week |-> IsoWeeksInYear(date.y - 1)]
        ELSE IF w > IsoWeeksInYear(date.y) THEN [year |-> date.y + 1, week |-> 1]
        ELSE [year |-> date.y, week |-> w]

\* the year_week label without the zero-fill of the week
YearWeekNoPad(date) ==
    LET iso == IsoCalendar(date)
    IN  IntToStr(iso.year) \o "-W" \o IntToStr(iso.week)

\* iso year "-W" iso week zero-filled to two digits
YearWeek(date) ==
    LET iso == IsoCalendar(date)
    IN  IntToStr(iso.year) \o "-W" \o ZFill(IntToStr(iso.week), 2)

\* dt.to_period("M").astype(str): "YYYY-MM"
MonthLabel(date) == IntToStr(date.y) \o "-" \o ZFill(IntToStr(date.m), 2)

\* pd.to_datetime(str(year) + "-W" + str(week) + "-1", format="%G-W%V-%u") of a
\* year_week label: the ordinal of the Monday of that ISO week
WeekStart(year_week) ==
    LET year_int == StrToInt(SubSeq(year_week, 1, 4))
        week_int == StrToInt(SubSeq(year_week, Len(year_week) - 1, Len(year_week)))
        jan4     == [y |-> year_int, m |-> 1, d |-> 4]
    IN  Ordinal(jan4) - (IsoWeekday(jan4) - 1) + 7 * (week_int - 1)

\* pd.Period(month, freq="M").to_timestamp() of a month label, as a count of months
MonthStart(month) ==
    StrToInt(SubSeq(month, 1, 4)) * 12 + StrToInt(SubSeq(month, 6, 7)) - 1

---------------------------------------------------------------------------
(* Load and transform.                                                     *)

\* one processed row of the DataFrame load_and_process_data returns
ProcessRow(line) ==
    LET member == IF line.assignee_name = NaN THEN "unassigned"
                  ELSE Lower(line.assignee_name)
    IN  [ record_id   |-> line.record_id,
          Record_Type |-> line.rec_type,
          Team_Member |-> member,
          tags        |-> IF line.tags = NaN THEN "" ELSE Lower(line.tags),
          start_date  |-> line.start_date,
          end_date    |-> line.end_date,
          year_week   |-> YearWeek(line.end_date),
          year        |-> line.end_date.y,
          month       |-> MonthLabel(line.end_date),
          Team        |-> IF member \in UCS_BANGALORE_TEAM_LOWER
                          THEN "UCS Bangalore" ELSE "Other Teams" ]

\* whether the try block of load_and_process_data raises on a non-empty text:
\* pd.read_csv cannot tokenize a line, or a column read as all-NaN has no
\* .str accessor
ParseRaises(text) ==
    \/ \E i \in DOMAIN text : text[i].malformed
    \/ \A i \in DOMAIN text : text[i].assignee_name = NaN
    \/ \A i \in DOMAIN text : text[i].tags = NaN

\* dropna(subset=["start_date", "end_date"])
HasDates(line) == line.start_date # NaT /\ line.end_date # NaT

\* the lines of a text as processed rows, lines without both dates dropped
RECURSIVE ProcessLines(_)
ProcessLines(text) ==
    IF text = <<>> THEN <<>>
    ELSE (IF HasDates(Head(text)) THEN <<ProcessRow(Head(text))>> ELSE <<>>)
            \o ProcessLines(Tail(text))

\* load_and_process_data(raw_csv_data); the empty sequence is an empty DataFrame
LoadAndProcess(text) ==
    IF text = <<>> THEN <<>>
    ELSE IF ParseRaises(text) THEN <<>>
    ELSE ProcessLines(text)

---------------------------------------------------------------------------
(* Metrics.                                                                *)

IsContribution(row) == row.Record_Type \in CONTRIBUTION_RECORD_TYPES

IsExempt(row) == ContainsExemption(row.tags)

\* groupby('Team Member').size() looked up for one name; a name with no group
\* maps to NaN, which fillna(0) turns into 0
GroupSize(rows, name) == Len(SelectSeq(rows, LAMBDA r : r.Team_Member = name))

\* calculate_contribution_summary with the exempted count taken over the
\* records of every type
SummaryExemptAnyType(df, team_members) ==
    LET df_contributions == SelectSeq(df, IsContribution)
        exempted_rows    == SelectSeq(df, IsExempt)
    IN  [i \in DOMAIN team_members |->
            LET low      == Lower(team_members[i])
                gross    == GroupSize(df_contributions, low)
                exempted == GroupSize(exempted_rows, low)
            IN  [ Team_Member |-> team_members[i],
                  Gross       |-> gross,
                  Exempted    |-> exempted,
                  Net         |-> gross - exempted ]]

\* calculate_contribution_summary with the group sizes looked up under the
\* names as the roster spells them
SummaryNoLower(df, team_members) ==
    LET df_contributions == SelectSeq(df, IsContribution)
        exempted_rows    == SelectSeq(df_contributions, IsExempt)
    IN  [i \in DOMAIN team_members |->
            LET gross    == GroupSize(df_contributions, team_members[i])
                exempted == GroupSize(exempted_rows, team_members[i])
            IN  [ Team_Member |-> team_members[i],
                  Gross       |-> gross,
                  Exempted    |-> exempted,
                  Net         |-> gross - exempted ]]

\* calculate_contribution_summary(df, team_members): one row per entry of
\* team_members, in that order
CalculateContributionSummary(df, team_members) ==
    LET df_contributions == SelectSeq(df, IsContribution)
        exempted_rows    == SelectSeq(df_contributions, IsExempt)
    IN  [i \in DOMAIN team_members |->
            LET low      == Lower(team_members[i])
                gross    == GroupSize(df_contributions, low)
                exempted == GroupSize(exempted_rows, low)
            IN  [ Team_Member |-> team_members[i],
                  Gross       |-> gross,
                  Exempted    |-> exempted,
                  Net         |-> gross - exempted ]]

\* total_net_contributions with the exempted count taken over the records of
\* every type
TotalNetExemptAnyType(df_slice) ==
    IF df_slice = <<>> THEN 0
    ELSE LET dfc      == SelectSeq(df_slice, IsContribution)
             gross    == Len(dfc)
             exempted == Len(SelectSeq(df_slice, IsExempt))
         IN  gross - exempted

\* total_net_contributions(df_slice)
TotalNetContributions(df_slice) ==
    IF df_slice = <<>> THEN 0
    ELSE LET dfc      == SelectSeq(df_slice, IsContribution)
             gross    == Len(dfc)
             exempted == Len(SelectSeq(dfc, IsExempt))
         IN  gross - exempted

\* Series.sum() of one integer column of a summary
RECURSIVE SumNet(_)
SumNet(summary) ==
    IF summary = <<>> THEN 0 ELSE Head(summary).Net + SumNet(Tail(summary))

\* one share of display_ucs_share: ucs_net / all_net * 100.0 as the fraction
\* num / den, 0.0 when all_net is not positive
SharePct(ucs_net, all_net) ==
    IF all_net > 0 THEN [num |-> ucs_net * 100, den |-> all_net]
    ELSE [num |-> 0, den |-> 1]

\* the four numbers display_ucs_share shows for one slice pair
DisplayUcsShare(df_week, df_month, ucs_weekly_summary, ucs_monthly_summary) ==
    LET ucs_net_week  == IF ucs_weekly_summary # <<>> THEN SumNet(ucs_weekly_summary) ELSE 0
        all_net_week  == TotalNetContributions(df_week)
        ucs_net_month == IF ucs_monthly_summary # <<>> THEN SumNet(ucs_monthly_summary) ELSE 0
        all_net_month == TotalNetContributions(df_month)
    IN  [ ucs_net_week  |-> ucs_net_week,
          all_net_week  |-> all_net_week,
          pct_week      |-> SharePct(ucs_net_week, all_net_week),
          ucs_net_month |-> ucs_net_month,
          all_net_month |-> all_net_month,
          pct_month     |-> SharePct(ucs_net_month, all_net_month) ]

\* the table display_all_teams_contribution builds: one row per assignee with
\* a contributing record in the week, in index (name) order; the order in
\* which st.dataframe then shows the rows is not kept
DisplayAllTeamsContribution(df_week_all_days) ==
    IF df_week_all_days = <<>> THEN <<>>
    ELSE LET df_contrib == SelectSeq(df_week_all_days, IsContribution)
             exempted   == SelectSeq(df_contrib, IsExempt)
             index      == SortStrings({r.Team_Member : r \in Range(df_contrib)})
         IN  [i \in DOMAIN index |->
                 LET g == GroupSize(df_contrib, index[i])
                     e == GroupSize(exempted, index[i])
                 IN  [ Team_Member |-> DisplayName(index[i]),
                       Gross       |-> g,
                       Exempted    |-> e,
                       Net         |-> g - e ]]

---------------------------------------------------------------------------
(* Yearly explorer.                                                        *)

\* _net_flag without the record type test
NetFlagAnyType(row) == IF ~IsExempt(row) THEN 1 ELSE 0

\* _net_flag for one row: 1 if it counts toward Net Contributions, else 0
NetFlag(row) == IF IsContribution(row) /\ ~IsExempt(row) THEN 1 ELSE 0

RECURSIVE SumNetFlag(_)
SumNetFlag(rows) ==
    IF rows = <<>> THEN 0 ELSE NetFlag(Head(rows)) + SumNetFlag(Tail(rows))

\* df_full[(df_full['year'] == year) & (df_full['Team'] == 'UCS Bangalore')]
DfYear(df, year) ==
    SelectSeq(df, LAMBDA r : r.year = year /\ r.Team = "UCS Bangalore")

\* an empty DataFrame returned in place of a pivot
EmptyPivot == [index |-> <<>>, columns |-> <<>>, cell |-> <<>>]

\* pivot_table(index='Team Member', columns=<bucket>, values='net',
\* fill_value=0, aggfunc='sum') over the (bucket, member) groups of rows, with
\* the index relabelled through LOWER_TO_ORIGINAL_CASE_MAP.  pivot_table
\* groups anew and sorts both axes by label, so the order the grouped frame
\* was sorted into beforehand does not reach the result.
PivotNet(rows, Bucket(_), columns) ==
    LET members == SortStrings({r.Team_Member : r \in Range(rows)})
        index   == [i \in DOMAIN members |-> DisplayName(members[i])]
    IN  [ index   |-> index,
          columns |-> columns,
          cell    |-> [k \in {<<index[i], columns[j]>> :
                                 i \in DOMAIN index, j \in DOMAIN columns} |->
                          LET low == CHOOSE m \in Range(members) : DisplayName(m) = k[1]
                          IN  SumNetFlag(SelectSeq(rows,
                                  LAMBDA r : r.Team_Member = low /\ Bucket(r) = k[2]))] ]

RowYearWeek(row) == row.year_week

RowMonth(row) == row.month

\* the column labels pivot_table leaves: sorted as strings
PivotColumns(labels) == SortStrings(labels)

\* compute_yearly_weekly_matrix(df_full, year)
ComputeYearlyWeeklyMatrix(df, year) ==
    IF df = <<>> THEN EmptyPivot
    ELSE LET df_year == DfYear(df, year)
         IN  IF df_year = <<>> THEN EmptyPivot
             ELSE PivotNet(df_year, RowYearWeek,
                           PivotColumns({r.year_week : r \in Range(df_year)}))

\* sorted(list(pivot.columns), key=lambda m: pd.Period(m, freq="M").to_timestamp())
RECURSIVE SortByMonthStart(_)
SortByMonthStart(labels) ==
    IF labels = {} THEN <<>>
    ELSE LET m == CHOOSE x \in labels :
                      \A y \in labels \ {x} : MonthStart(x) < MonthStart(y)
         IN  <<m>> \o SortByMonthStart(labels \ {m})

\* compute_yearly_monthly_matrix(df_full, year)
ComputeYearlyMonthlyMatrix(df, year) ==
    IF df = <<>> THEN EmptyPivot
    ELSE LET df_year == DfYear(df, year)
         IN  IF df_year = <<>> THEN EmptyPivot
             ELSE PivotNet(df_year, RowMonth,
                           SortByMonthStart(Range(PivotColumns(
                               {r.month : r \in Range(df_year)}))))

\* Series.max() of the net column of a summary
RECURSIVE MaxNet(_)
MaxNet(summary) ==
    IF Len(summary) = 1 THEN summary[1].Net
    ELSE LET rest == MaxNet(Tail(summary))
         IN  IF Head(summary).Net >= rest THEN Head(summary).Net ELSE rest

\* Series.idxmax(): the index label of the first row that holds the maximum
IdxMax(summary) ==
    LET first == CHOOSE i \in DOMAIN summary :
                     /\ summary[i].Net = MaxNet(summary)
                     /\ \A j \in 1 .. (i - 1) : summary[j].Net # MaxNet(summary)
    IN  summary[first].Team_Member

\* what display_top_performers shows for one summary: nothing unless the
\* summary has rows and a positive net total
NoTop == [shown |-> FALSE, contributor |-> "", count |-> 0]

TopOf(summary) ==
    IF summary # <<>> /\ SumNet(summary) > 0
    THEN [shown |-> TRUE, contributor |-> IdxMax(summary), count |-> MaxNet(summary)]
    ELSE NoTop

\* display_top_performers(weekly_summary, monthly_summary, selected_month_str)
DisplayTopPerformers(weekly_summary, monthly_summary) ==
    [week |-> TopOf(weekly_summary), month |-> TopOf(monthly_summary)]

\* the row of tops for one month with the net counts sorted ascending
TopOfMonthAscending(df_year, month) ==
    LET rows    == SelectSeq(df_year, LAMBDA r : r.month = month)
        members == SortStrings({r.Team_Member : r \in Range(rows)})
        net(i)  == SumNetFlag(SelectSeq(rows, LAMBDA r : r.Team_Member = members[i]))
        first   == CHOOSE i \in DOMAIN members :
                       \A j \in DOMAIN members :
                           net(j) > net(i) \/ (net(j) = net(i) /\ i <= j)
    IN  [ month           |-> month,
          top_contributor |-> DisplayName(members[first]),
          top_net         |-> net(first) ]

\* the row of tops for one month: the (month, member) groups come sorted by
\* member; sort_values(['month', 'net'], ascending=[True, False]) keeps that
\* order among equal net sums, and groupby('month').first() takes the first
TopOfMonth(df_year, month) ==
    LET rows    == SelectSeq(df_year, LAMBDA r : r.month = month)
        members == SortStrings({r.Team_Member : r \in Range(rows)})
        net(i)  == SumNetFlag(SelectSeq(rows, LAMBDA r : r.Team_Member = members[i]))
        first   == CHOOSE i \in DOMAIN members :
                       \A j \in DOMAIN members :
                           net(j) < net(i) \/ (net(j) = net(i) /\ i <= j)
    IN  [ month           |-> month,
          top_contributor |-> DisplayName(members[first]),
          top_net         |-> net(first) ]

\* compute_yearly_monthly_tops(df_full, year): one row per month of the
\* year's roster records, sorted by the month's first day
ComputeYearlyMonthlyTops(df, year) ==
    IF df = <<>> THEN <<>>
    ELSE LET df_year == DfYear(df, year)
             months  == SortByMonthStart({r.month : r \in Range(df_year)})
         IN  [k \in DOMAIN months |-> TopOfMonth(df_year, months[k])]

---------------------------------------------------------------------------
(* Fetch helpers.                                                          *)

\* Optional[str]: None, or a text (the sequence of its CSV lines; "" is the
\* empty sequence)
None == [some |-> FALSE, text |-> <<>>]

Some(text) == [some |-> TRUE, text |-> text]

\* Python truth of an Optional[str]: neither None nor ""
Truthy(opt) == opt.some /\ opt.text # <<>>

\* one requests.get of fetch_month_csv: the endpoint, whether the Host header
\* is sent, and whether it came back without an exception
Request(year, month, via, ok) ==
    [year |-> year, month |-> month, via |-> via, host_header |-> (via = "ip"), ok |-> ok]

\* fetch_month_csv's body with the request to the address issued whatever the
\* hostname answered
FetchMonthBodyAlwaysFallback(year, month, net) ==
    IF net.host.ok
    THEN [ value    |-> Some(net.host.text),
           requests |-> <<Request(year, month, "hostname", TRUE),
                          Request(year, month, "ip", net.ip.ok)>> ]
    ELSE IF net.ip.ok
    THEN [ value    |-> Some(net.ip.text),
           requests |-> <<Request(year, month, "hostname", FALSE),
                          Request(year, month, "ip", TRUE)>> ]
    ELSE [ value    |-> None,
           requests |-> <<Request(year, month, "hostname", FALSE),
                          Request(year, month, "ip", FALSE)>> ]

\* the body of fetch_month_csv(year, month), given what the two endpoints
\* answer (net.host, net.ip: ok, and the response text when ok): the value
\* returned and the requests issued, in order
FetchMonthBody(year, month, net) ==
    IF net.host.ok
    THEN [ value    |-> Some(net.host.text),
           requests |-> <<Request(year, month, "hostname", TRUE)>> ]
    ELSE IF net.ip.ok
    THEN [ value    |-> Some(net.ip.text),
           requests |-> <<Request(year, month, "hostname", FALSE),
                          Request(year, month, "ip", TRUE)>> ]
    ELSE [ value    |-> None,
           requests |-> <<Request(year, month, "hostname", FALSE),
                          Request(year, month, "ip", FALSE)>> ]

\* fetch_month_csv behind a store that keeps texts only, so that a month
\* that failed is fetched again by the next call
FetchMonthCsvNoneNotStored(year, month, nets, cache) ==
    LET key == <<year, month>>
    IN  IF key \in DOMAIN cache
        THEN [value |-> cache[key], requests |-> <<>>, cached |-> TRUE, cache |-> cache]
        ELSE LET run == FetchMonthBody(year, month, nets[month])
             IN  [ value    |-> run.value,
                   requests |-> run.requests,
                   cached   |-> FALSE,
                   cache    |-> IF run.value = None THEN cache
                                ELSE [k \in DOMAIN cache \cup {key} |->
                                         IF k = key THEN run.value ELSE cache[k]] ]

\* fetch_month_csv(year, month) behind st.cache_data: a stored entry is
\* returned without running the body, otherwise the body runs and its return
\* value, None included, is stored
FetchMonthCsv(year, month, nets, cache) ==
    LET key == <<year, month>>
    IN  IF key \in DOMAIN cache
        THEN [value |-> cache[key], requests |-> <<>>, cached |-> TRUE, cache |-> cache]
        ELSE LET run == FetchMonthBody(year, month, nets[month])
             IN  [ value    |-> run.value,
                   requests |-> run.requests,
                   cached   |-> FALSE,
                   cache    |-> [k \in DOMAIN cache \cup {key} |->
                                    IF k = key THEN run.value ELSE cache[k]] ]

\* the loop of fetch_months_csv leaving at the first month without a text
RECURSIVE FetchLoopStopAtFailure(_, _, _, _, _)
FetchLoopStopAtFailure(year, months, i, nets, acc) ==
    IF i > Len(months) THEN acc
    ELSE LET m    == months[i]
             got  == FetchMonthCsv(year, m, nets, acc.cache)
             step == [ parts    |-> IF Truthy(got.value)
                                    THEN Append(acc.parts, got.value.text)
                                    ELSE acc.parts,
                       cache    |-> got.cache,
                       requests |-> acc.requests \o got.requests,
                       fetched  |-> Append(acc.fetched,
                                        [month |-> m, value |-> got.value,
                                         cached |-> got.cached]) ]
         IN  IF Truthy(got.value)
             THEN FetchLoopStopAtFailure(year, months, i + 1, nets, step)
             ELSE step

\* the loop of fetch_months_csv from position i of months on: acc carries
\* parts, the month cache, the requests issued and the per-month results
RECURSIVE FetchLoop(_, _, _, _, _)
FetchLoop(year, months, i, nets, acc) ==
    IF i > Len(months) THEN acc
    ELSE LET m   == months[i]
             got == FetchMonthCsv(year, m, nets, acc.cache)
         IN  FetchLoop(year, months, i + 1, nets,
                 [ parts    |-> IF Truthy(got.value)
                                THEN Append(acc.parts, got.value.text)
                                ELSE acc.parts,
                   cache    |-> got.cache,
                   requests |-> acc.requests \o got.requests,
                   fetched  |-> Append(acc.fetched,
                                    [month |-> m, value |-> got.value,
                                     cached |-> got.cached]) ])

\* "\n".join(parts)
RECURSIVE Join(_)
Join(parts) == IF parts = <<>> THEN <<>> ELSE Head(parts) \o Join(Tail(parts))

\* the body of fetch_months_csv(year, months)
FetchMonthsBody(year, months, nets, cache) ==
    LET done == FetchLoop(year, months, 1, nets,
                    [parts |-> <<>>, cache |-> cache, requests |-> <<>>, fetched |-> <<>>])
    IN  [ value    |-> IF done.parts = <<>> THEN None ELSE Some(Join(done.parts)),
          cache    |-> done.cache,
          requests |-> done.requests,
          fetched  |-> done.fetched ]

\* fetch_months_csv(year, months) behind st.cache_data
FetchMonthsCsv(year, months, nets, cache, cache2) ==
    LET key == <<year, months>>
    IN  IF key \in DOMAIN cache2
        THEN [ value |-> cache2[key], cache |-> cache, cache2 |-> cache2,
               requests |-> <<>>, fetched |-> <<>>, ran |-> FALSE ]
        ELSE LET run == FetchMonthsBody(year, months, nets, cache)
             IN  [ value    |-> run.value,
                   cache    |-> run.cache,
                   cache2   |-> [k \in DOMAIN cache2 \cup {key} |->
                                    IF k = key THEN run.value ELSE cache2[k]],
                   requests |-> run.requests,
                   fetched  |-> run.fetched,
                   ran      |-> TRUE ]

\* st.cache_data(ttl=600) of fetch_month_csv and fetch_months_csv
CACHE_TTL == 600

\* the entries of a store that a lookup at the present time finds: those
\* stored less than CACHE_TTL seconds ago
Fresh(cache, at) ==
    [k \in {j \in DOMAIN cache : now - at[j] < CACHE_TTL} |-> cache[k]]

FreshMonth == Fresh(month_cache, month_at)

FreshMonths == Fresh(months_cache, months_at)

\* when the entries of a store were stored, after a call that found the
\* entries of fresh and left those of cache
StoredAt(cache, fresh, at) ==
    [k \in DOMAIN cache |-> IF k \in DOMAIN fresh THEN at[k] ELSE now]

---------------------------------------------------------------------------
(* The dataset and the dashboard pass.                                     *)

\* DataFrame.drop_duplicates(): the first of each run of equal rows is kept
RECURSIVE DropDuplicates(_)
DropDuplicates(rows) ==
    IF rows = <<>> THEN <<>>
    ELSE LET init == DropDuplicates(SubSeq(rows, 1, Len(rows) - 1))
             last == rows[Len(rows)]
         IN  IF last \in Range(init) THEN init ELSE Append(init, last)

\* pd.concat([old, new], ignore_index=True) alone
AppendNoDedup(old, new) == old \o new

\* pd.concat([old, new], ignore_index=True).drop_duplicates()
AppendDataset(old, new) == DropDuplicates(old \o new)

\* the fetch handler with the dataset emptied when parsing returns no rows
FetchOutcomeClearsOnFailure(raw, old, replace_data) ==
    IF Truthy(raw)
    THEN LET new_df == LoadAndProcess(raw.text)
         IN  IF new_df # <<>>
             THEN IF replace_data \/ old = <<>>
                  THEN [status |-> "replaced", df |-> new_df]
                  ELSE [status |-> "appended", df |-> AppendDataset(old, new_df)]
             ELSE [status |-> "norows", df |-> <<>>]
    ELSE [status |-> "nodata", df |-> old]

\* the branch of the fetch handler taken for raw_data, the dataset found and
\* the checkbox, and the dataset the handler leaves
FetchOutcome(raw, old, replace_data) ==
    IF Truthy(raw)
    THEN LET new_df == LoadAndProcess(raw.text)
         IN  IF new_df # <<>>
             THEN IF replace_data \/ old = <<>>
                  THEN [status |-> "replaced", df |-> new_df]
                  ELSE [status |-> "appended", df |-> AppendDataset(old, new_df)]
             ELSE [status |-> "norows", df |-> old]
    ELSE [status |-> "nodata", df |-> old]

\* the select boxes of a pass that stops at "no data yet"
NoSelection == [loaded |-> FALSE, week |-> "", month |-> "", year |-> 0]

\* the choices the three select boxes of a pass over df offer: the weeks, the
\* months and the years of the loaded rows
Selections(df) ==
    IF df = <<>> THEN {NoSelection}
    ELSE { [loaded |-> TRUE, week |-> week, month |-> month, year |-> year] :
             week  \in {r.year_week : r \in Range(df)},
             month \in {MonthLabel(r.end_date) : r \in Range(df)},
             year  \in {r.year : r \in Range(df)} }

\* the select boxes of the pass that follows a click: a select box whose
\* options are the same as in the pass before keeps its value, one whose
\* options changed is a new widget and shows its first option, the latest
\* week, month or year (index=0 of the options sorted in reverse)
Latest(labels) == LET sorted == SortStrings(labels) IN sorted[Len(sorted)]

SelectionAfter(old_df, old_sel, df) ==
    IF df = <<>> THEN NoSelection
    ELSE LET weeks(d)  == {r.year_week : r \in Range(d)}
             months(d) == {MonthLabel(r.end_date) : r \in Range(d)}
             years(d)  == {r.year : r \in Range(d)}
             kept(opts(_)) == old_sel.loaded /\ opts(old_df) = opts(df)
         IN  [ loaded |-> TRUE,
               week   |-> IF kept(weeks) THEN old_sel.week ELSE Latest(weeks(df)),
               month  |-> IF kept(months) THEN old_sel.month ELSE Latest(months(df)),
               year   |-> IF kept(years) THEN old_sel.year
                          ELSE CHOOSE y \in years(df) : \A z \in years(df) : z <= y ]

\* the frames and tables the pass derives from the loaded dataset for the
\* current selection; each is a function of df_full and selection alone, so
\* the state keeps the selection and these definitions give the rest
df_week == SelectSeq(df_full, LAMBDA r : r.year_week = selection.week)

df_month == SelectSeq(df_full, LAMBDA r : MonthLabel(r.end_date) = selection.month)

ucs_weekly_summary ==
    CalculateContributionSummary(
        SelectSeq(df_week, LAMBDA r : r.Team = "UCS Bangalore"), ORIGINAL_CASE_TEAM)

ucs_monthly_summary ==
    CalculateContributionSummary(
        SelectSeq(df_month, LAMBDA r : r.Team = "UCS Bangalore"), ORIGINAL_CASE_TEAM)

ucs_share == DisplayUcsShare(df_week, df_month, ucs_weekly_summary, ucs_monthly_summary)

all_teams == DisplayAllTeamsContribution(df_week)

weekly_pivot == ComputeYearlyWeeklyMatrix(df_full, selection.year)

monthly_pivot == ComputeYearlyMonthlyMatrix(df_full, selection.year)

top_performers == DisplayTopPerformers(ucs_weekly_summary, ucs_monthly_summary)

tops == ComputeYearlyMonthlyTops(df_full, selection.year)

---------------------------------------------------------------------------
(* The views of a dashboard pass and the email tool.                       *)

INDIVIDUAL_TARGET == 15

SENDER_EMAIL == "blr-atc@amadeus.com"

\* name.replace(' ', '.')
RECURSIVE ReplaceSpaces(_)
ReplaceSpaces(s) ==
    IF s = "" THEN ""
    ELSE (IF SubSeq(s, 1, 1) = " " THEN "." ELSE SubSeq(s, 1, 1))
            \o ReplaceSpaces(SubSeq(s, 2, Len(s)))

\* EMAIL_MAPPING: first.last@amadeus.com for every roster name, by lowercased
\* name, then the five entries of EMAIL_MAPPING.update
EMAIL_MAPPING ==
    [low \in UCS_BANGALORE_TEAM_LOWER |->
        CASE low = "k sai koushik"               -> "k.saikoushik@amadeus.com"
          [] low = "manoj kumar r"               -> "manoj.kumarr@amadeus.com"
          [] low = "mohammed misba rizvi"        -> "misba.rizvi@amadeus.com"
          [] low = "paluvadi venkata sai ujwala" -> "paluvadivenkata.saiujwala@amadeus.com"
          [] low = "kaustubh singh"              -> "kaustubh.singh@example.com"
          [] OTHER -> ReplaceSpaces(LOWER_TO_ORIGINAL_CASE_MAP[low]) \o "@amadeus.com"]

\* EMAIL_MAPPING.get(name.lower()): "" stands for None
EmailOf(name) ==
    IF Lower(name) \in DOMAIN EMAIL_MAPPING THEN EMAIL_MAPPING[Lower(name)] ELSE ""

\* the columns of a summary as calculate_contribution_summary returns it
GrossColumn == "Gross Contributions (WO,PTR,TR)"

ExemptedColumn == "Exempted"

NetColumn == "Net Contributions"

SummaryColumns == {GrossColumn, ExemptedColumn, NetColumn}

\* the column display_target_analysis adds and the name it gives the net column
NeededColumn == "Needed for Target (" \o IntToStr(INDIVIDUAL_TARGET) \o ")"

TargetNetColumn == "Net Contributions (For Target)"

\* (INDIVIDUAL_TARGET - net).clip(lower=0)
NeededForTarget(net) ==
    IF INDIVIDUAL_TARGET - net < 0 THEN 0 ELSE INDIVIDUAL_TARGET - net

\* the value a summary row holds under a column name
ColumnValue(row, column) ==
    CASE column = GrossColumn     -> row.Gross
      [] column = ExemptedColumn  -> row.Exempted
      [] column = NetColumn       -> row.Net
      [] column = TargetNetColumn -> row.Net
      [] column = NeededColumn    -> NeededForTarget(row.Net)

\* one entry of the log of a pass
Event(kind, who, to, net, needed) ==
    [kind |-> kind, who |-> who, to |-> to, net |-> net, needed |-> needed]

\* a lookup of a column the frame does not have
KeyError(view, column) == Event("KeyError", view, column, 0, 0)

\* the state of the email widgets of a pass: whether the send button was
\* clicked, the recipients selected, in order, and for each whether
\* mail.Send() will go through
NoEmailClick == [pressed |-> FALSE, recipients |-> <<>>, outcomes |-> <<>>]

\* summary_df.loc[name]
RowOf(summary, name) ==
    summary[CHOOSE i \in DOMAIN summary : summary[i].Team_Member = name]

\* the loop over the recipients leaving at the first mail that is not sent
RECURSIVE EmailLoopStopAtFailure(_, _, _, _, _, _)
EmailLoopStopAtFailure(click, i, summary, columns, week, log) ==
    IF i > Len(click.recipients)
    THEN [log |-> Append(log, Event("complete", "", "", 0, 0)), raised |-> FALSE]
    ELSE LET name == click.recipients[i]
             sent == Event(IF click.outcomes[i] THEN "sent" ELSE "failed",
                           name, EmailOf(name),
                           ColumnValue(RowOf(summary, name), TargetNetColumn),
                           ColumnValue(RowOf(summary, name), NeededColumn))
         IN  IF click.outcomes[i]
             THEN EmailLoopStopAtFailure(click, i + 1, summary, columns, week,
                                         Append(log, sent))
             ELSE [log |-> Append(log, sent), raised |-> TRUE]

\* the loop over the recipients of display_email_tool from position i on;
\* send_email_with_outlook catches what mail.Send() raises and reports it
RECURSIVE EmailLoop(_, _, _, _, _, _)
EmailLoop(click, i, summary, columns, week, log) ==
    IF i > Len(click.recipients)
    THEN [log |-> Append(log, Event("complete", "", "", 0, 0)), raised |-> FALSE]
    ELSE LET name            == click.recipients[i]
             person_data     == RowOf(summary, name)
             recipient_email == EmailOf(name)
         IN  IF recipient_email = ""
             THEN EmailLoop(click, i + 1, summary, columns, week,
                            Append(log, Event("skipped", name, "", 0, 0)))
             ELSE IF TargetNetColumn \notin columns
             THEN [ log    |-> Append(log, KeyError("display_email_tool", TargetNetColumn)),
                    raised |-> TRUE ]
             ELSE IF NeededColumn \notin columns
             THEN [ log    |-> Append(log, KeyError("display_email_tool", NeededColumn)),
                    raised |-> TRUE ]
             ELSE EmailLoop(click, i + 1, summary, columns, week,
                     Append(log,
                         Event(IF click.outcomes[i] THEN "sent" ELSE "failed",
                               name, recipient_email,
                               ColumnValue(person_data, TargetNetColumn),
                               ColumnValue(person_data, NeededColumn))))

\* display_email_tool(ucs_summary_df, selected_year_week) where pywin32 is
\* installed
DisplayEmailTool(click, summary, columns, week, log) ==
    IF ~click.pressed THEN [log |-> log, raised |-> FALSE]
    ELSE IF click.recipients = <<>>
    THEN [log |-> Append(log, Event("norecipients", "", "", 0, 0)), raised |-> FALSE]
    ELSE EmailLoop(click, 1, summary, columns, week, log)

\* the views with the target analysis called first
ViewOrderTargetFirst ==
    << "display_target_analysis", "display_top_performers", "display_ucs_share",
       "display_email_tool", "display_drill_down_analysis",
       "display_all_teams_contribution", "display_yearly_explorer" >>

\* the views of main() that take the weekly roster summary or follow those
\* that do, in the order main() calls them
ViewOrder ==
    << "display_top_performers", "display_ucs_share", "display_target_analysis",
       "display_email_tool", "display_drill_down_analysis",
       "display_all_teams_contribution", "display_yearly_explorer" >>

\* the views from position k of order on; st carries the columns of the
\* weekly summary, the log, and whether an exception has ended the pass
RECURSIVE RunViews(_, _, _, _, _, _)
RunViews(order, k, click, summary, week, st) ==
    IF k > Len(order) \/ st.raised THEN st
    ELSE LET view == order[k]
             next ==
                CASE view \in {"display_top_performers", "display_ucs_share"} ->
                        IF NetColumn \in st.columns THEN st
                        ELSE [st EXCEPT !.log = Append(@, KeyError(view, NetColumn)),
                                        !.raised = TRUE]
                  [] view = "display_target_analysis" ->
                        IF NetColumn \in st.columns
                        THEN [st EXCEPT !.columns =
                                 ((@ \cup {NeededColumn}) \ {NetColumn}) \cup {TargetNetColumn}]
                        ELSE [st EXCEPT !.log = Append(@, KeyError(view, NetColumn)),
                                        !.raised = TRUE]
                  [] view = "display_email_tool" ->
                        LET tool == DisplayEmailTool(click, summary, st.columns, week, st.log)
                        IN  [st EXCEPT !.log = tool.log, !.raised = tool.raised]
                  [] OTHER -> st
         IN  RunViews(order, k + 1, click, summary, week, next)

\* the weekly roster summary main() builds for a dataset and a selection
WeeklySummaryOf(df, sel) ==
    CalculateContributionSummary(
        SelectSeq(df, LAMBDA r : r.year_week = sel.week /\ r.Team = "UCS Bangalore"),
        ORIGINAL_CASE_TEAM)

\* the log of one pass over df: nothing when main() returns at "no data
\* yet", else what the views leave
Pass(df, sel, click) ==
    IF df = <<>> THEN <<>>
    ELSE RunViews(ViewOrder, 1, click, WeeklySummaryOf(df, sel), sel.week,
                  [columns |-> SummaryColumns, log |-> <<>>, raised |-> FALSE]).log

\* the loaded dataset as a pass would leave it if compute_yearly_weekly_matrix
\* assigned its net column into the dataset's own rows
DatasetWithNetColumn(df, sel) ==
    [i \in DOMAIN df |->
        IF df[i].year = sel.year /\ df[i].Team = "UCS Bangalore"
        THEN [f \in DOMAIN df[i] \cup {"net"} |->
                 IF f = "net" THEN NetFlag(df[i]) ELSE df[i][f]]
        ELSE df[i]]

\* st.session_state.df_full after the views of a pass: every view works on
\* a frame that boolean indexing or .copy() made, and none assigns into the
\* loaded dataset
DatasetAfterPass(df, sel) == df

---------------------------------------------------------------------------
(* The environment: what the upstream API can answer.                      *)

Date(y, m, d) == [y |-> y, m |-> m, d |-> d]

Line(id, type, who, tags, start, end) ==
    [ record_id |-> id, rec_type |-> type, assignee_name |-> who, tags |-> tags,
      start_date |-> start, end_date |-> end, malformed |-> FALSE ]

\* a line pd.read_csv cannot tokenize
BadLine == [Line("r0", "WO", "Basavaraj Awati", "foo", NaT, NaT) EXCEPT !.malformed = TRUE]

Feb01 == Date(2024, 2, 1)      \* Thursday of 2024-W05
Mar20 == Date(2024, 3, 20)     \* Wednesday of 2024-W12
Dec30 == Date(2024, 12, 30)    \* Monday of 2025-W01
Jan01 == Date(2025, 1, 1)      \* Wednesday of 2025-W01

\* the lines the data specification builds its texts from: two roster
\* members in several spellings, a third, an assignee outside the roster and
\* a missing one; contributing and other record types; tags with and without
\* an exemption keyword, in either case, and missing; end dates in three weeks
\* of 2024, one of them ISO week 1 of 2025, in 2025, and unparsable
LinePool ==
    { Line("r1", "WO",  "Basavaraj Awati", "foo,bar",      Feb01, Feb01),
      Line("r2", "PTR", "Basavaraj Awati", "ATC-MON,foo",  Feb01, Feb01),
      Line("r3", "TR",  "K SAI KOUSHIK",   NaN,            Mar20, Dec30),
      Line("r4", "WO",  "k sai koushik",   "foo",          Dec30, Jan01),
      Line("r5", "INC", "Basavaraj Awati", "atc-ign",      Feb01, Feb01),
      Line("r6", "WO",  "Jane Doe",        "foo",          Feb01, Feb01),
      Line("r7", "TR",  NaN,               "pre-atc-supx", Feb01, Mar20),
      Line("r8", "WO",  "Shachi JAIN",     "foo",          Feb01, NaT),
      Line("r9", "wo",  "Shachi JAIN",     "Foo",          Feb01, Mar20),
      Line("r10", "PTR", "Shachi JAIN",    "pre-ATC-FUP",  Feb01, Feb01) }

\* every text of 1 .. n lines of the pool
RECURSIVE TextsUpTo(_)
TextsUpTo(n) ==
    IF n = 0 THEN {<<>>}
    ELSE LET shorter == TextsUpTo(n - 1)
         IN  shorter \cup {Append(t, l) : t \in shorter, l \in LinePool}

DataTexts == TextsUpTo(MaxTextRows) \ {<<>>}

TextA == << Line("r1", "WO",  "Basavaraj Awati", "foo,bar",     Feb01, Feb01),
            Line("r2", "PTR", "Basavaraj Awati", "ATC-MON,foo", Feb01, Feb01) >>

TextB == << Line("r2", "PTR", "Basavaraj Awati", "ATC-MON,foo", Feb01, Feb01),
            Line("r6", "WO",  "Jane Doe",        "foo",         Feb01, Mar20),
            Line("r6", "WO",  "Jane Doe",        "foo",         Feb01, Mar20) >>

TextNoDates == << Line("r8", "WO", "Shachi JAIN", "foo", Feb01, NaT) >>

\* the response texts of the session specification, by month: month 1 is
\* answered with a text with rows, the empty body or a text that cannot be
\* parsed; month 2 with a text that shares a row with month 1's and repeats a
\* row of its own, or with a text whose only row has no end date
SessionTexts(month) ==
    IF month = 1 THEN {TextA, <<>>, <<BadLine>>} ELSE {TextB, TextNoDates}

Down == [ok |-> FALSE, text |-> <<>>]

Up(text) == [ok |-> TRUE, text |-> text]

\* what the two endpoints can answer for one (year, month): the hostname
\* answers with any of the texts, or it fails and the address answers with
\* the month's text with rows, or both fail
NetOutcomes(texts) ==
    {[host |-> Up(t), ip |-> Down] : t \in texts}
        \cup {[host |-> Down, ip |-> Up(t)] : t \in texts \cap {TextA, TextB}}
        \cup {[host |-> Down, ip |-> Down]}

\* the years and the month selections the session specification clicks with
Years == {2024}

MonthTuples == {<<>>, <<2>>, <<1, 2>>}

---------------------------------------------------------------------------
(* The session.                                                            *)

Init ==
    /\ df_full = <<>>
    /\ prev_df = <<>>
    /\ month_cache = <<>>
    /\ months_cache = <<>>
    /\ month_at = <<>>
    /\ months_at = <<>>
    /\ now = 0
    /\ requests = <<>>
    /\ fetched = <<>>
    /\ raw_data = None
    /\ status = "init"
    /\ last_click = [year |-> 0, months |-> <<>>, replace_data |-> TRUE, ran |-> FALSE]
    /\ selection = NoSelection
    /\ email_click = NoEmailClick
    /\ pass_log = <<>>

\* the dashboard pass that ends a run of main(), over the dataset df the
\* run works on, with the select boxes at sel
PassOver(df, sel, click) ==
    /\ selection' = sel
    /\ df_full' = DatasetAfterPass(df, sel)
    /\ email_click' = click
    /\ pass_log' = Pass(df, sel, click)

\* one run of main() with the fetch button clicked: the handler of lines
\* 548-569, then the dashboard pass over the dataset it leaves
Click(year, months, replace_data, nets) ==
    /\ prev_df' = df_full
    /\ now' = now
    /\ IF months = <<>>
       THEN /\ status' = "nomonths"
            /\ raw_data' = None
            /\ requests' = <<>>
            /\ fetched' = <<>>
            /\ last_click' = [year |-> year, months |-> months,
                              replace_data |-> replace_data, ran |-> FALSE]
            /\ UNCHANGED <<month_cache, months_cache, month_at, months_at>>
            /\ PassOver(df_full, selection, NoEmailClick)
       ELSE LET fresh  == FreshMonth
                fresh2 == FreshMonths
                call   == FetchMonthsCsv(year, months, nets, fresh, fresh2)
                out  == FetchOutcome(call.value, df_full, replace_data)
            IN  /\ raw_data' = call.value
                /\ requests' = call.requests
                /\ fetched' = call.fetched
                /\ month_cache' = call.cache
                /\ months_cache' = call.cache2
                /\ month_at' = StoredAt(call.cache, fresh, month_at)
                /\ months_at' = StoredAt(call.cache2, fresh2, months_at)
                /\ last_click' = [year |-> year, months |-> months,
                                  replace_data |-> replace_data, ran |-> call.ran]
                /\ status' = out.status
                /\ PassOver(out.df, SelectionAfter(df_full, selection, out.df),
                            NoEmailClick)

\* the months of a click for which the network is asked: none when the
\* selection is stored in fetch_months_csv's store, else those not stored
\* in fetch_month_csv's
Asked(year, months, cache, cache2) ==
    IF <<year, months>> \in DOMAIN cache2 THEN {}
    ELSE {m \in Range(months) : <<year, m>> \notin DOMAIN cache}

\* the answers for months that are not asked play no part; they are pinned to
\* "both fail" so that each click is explored once
Canonical(asked, net1, net2) ==
    /\ 1 \notin asked => net1 = [host |-> Down, ip |-> Down]
    /\ 2 \notin asked => net2 = [host |-> Down, ip |-> Down]

RunFetch ==
    \E year \in Years, months \in MonthTuples :
        LET asked == Asked(year, months, FreshMonth, FreshMonths)
        IN  \E replace_data \in BOOLEAN :
                \E net1 \in NetOutcomes(SessionTexts(1)),
                   net2 \in NetOutcomes(SessionTexts(2)) :
                    /\ Canonical(asked, net1, net2)
                    /\ Click(year, months, replace_data, <<net1, net2>>)

\* one run of main() without a click (a select box changed): the pass alone
RunPass ==
    /\ \E sel \in Selections(df_full) : PassOver(df_full, sel, NoEmailClick)
    /\ UNCHANGED <<prev_df, month_cache, months_cache, month_at, months_at, now,
                   requests, fetched,
                   raw_data, status, last_click>>

\* ten minutes after they were stored, the entries of fetch_month_csv's
\* store have run out of their ttl
ExpireMonth ==
    /\ month_cache # <<>>
    /\ month_cache' = <<>>
    /\ month_at' = <<>>
    /\ UNCHANGED <<df_full, prev_df, months_cache, months_at, now, requests, fetched, raw_data,
                   status, last_click, selection, email_click, pass_log>>

\* the same for fetch_months_csv's store
ExpireMonths ==
    /\ months_cache # <<>>
    /\ months_cache' = <<>>
    /\ months_at' = <<>>
    /\ UNCHANGED <<df_full, prev_df, month_cache, month_at, now, requests, fetched, raw_data,
                   status, last_click, selection, email_click, pass_log>>

Next == RunFetch \/ RunPass \/ ExpireMonth \/ ExpireMonths

\* the session: clicks with either checkbox value on month selections out of
\* two months, answered or refused at either endpoint with the session texts
Spec == Init /\ [][Next]_vars

\* a click of the data specification: month 1 of 2024 in replace mode,
\* answered at the hostname with any text of DataTexts
RunFetchData ==
    \E text \in (IF Asked(2024, <<1>>, FreshMonth, FreshMonths) = {}
                 THEN {<<>>} ELSE DataTexts) :
        Click(2024, <<1>>, TRUE,
              <<[host |-> Up(text), ip |-> Down], [host |-> Down, ip |-> Down]>>)

NextData == RunFetchData \/ RunPass

\* the roster names the mail specification selects recipients from, and the
\* selections of the multiselect: up to MaxRecipients of them, each once, in
\* the order they were picked
RecipientPool == {"ashish johnjeyaraj", "Basavaraj Awati", "K SAI KOUSHIK"}

RECURSIVE RecipientsUpTo(_)
RecipientsUpTo(n) ==
    IF n = 0 THEN {<<>>}
    ELSE LET shorter == RecipientsUpTo(n - 1)
         IN  shorter \cup {Append(t, name) :
                              t \in {u \in shorter : Len(u) = n - 1},
                              name \in RecipientPool}

RecipientTuples ==
    {t \in RecipientsUpTo(MaxRecipients) : \A i, j \in DOMAIN t : i # j => t[i] # t[j]}

\* the text the mail specification is answered with for a month
MailText(month) == IF month = 1 THEN TextA ELSE TextB

\* a click of the mail specification: month 1 or month 2 of 2024, in either
\* mode, answered at the hostname with the month's text or refused at both
\* endpoints
RunFetchMail ==
    \E month \in {1, 2}, replace_data \in BOOLEAN :
        \E answer \in (IF Asked(2024, <<month>>, FreshMonth, FreshMonths) = {}
                       THEN {Down} ELSE {Up(MailText(month)), Down}) :
            Click(2024, <<month>>, replace_data,
                  [m \in {1, 2} |-> IF m = month THEN [host |-> answer, ip |-> Down]
                                    ELSE [host |-> Down, ip |-> Down]])

\* one run of main() with the send button of the email tool clicked: the
\* pass over the loaded dataset with the select boxes as they are
RunSend ==
    /\ selection.loaded
    /\ \E recipients \in RecipientTuples :
           \E outcomes \in [DOMAIN recipients -> BOOLEAN] :
               PassOver(df_full, selection,
                        [pressed |-> TRUE, recipients |-> recipients, outcomes |-> outcomes])
    /\ UNCHANGED <<prev_df, month_cache, months_cache, month_at, months_at, now,
                   requests, fetched,
                   raw_data, status, last_click>>

NextMail == RunFetchMail \/ RunPass \/ RunSend

\* the mail: a session that loads a text, selects weeks and months, and
\* sends batches of mails any of which may fail
SpecMail == Init /\ [][NextMail]_vars

\* a click of the cache specification: month 2 or months 1 and 2 of 2024 in
\* replace mode, each month that is asked answered at the hostname with its
\* text or refused at both endpoints
RunFetchCache ==
    \E months \in {<<2>>, <<1, 2>>} :
        \E net1 \in {[host |-> Up(MailText(1)), ip |-> Down], [host |-> Down, ip |-> Down]},
           net2 \in {[host |-> Up(MailText(2)), ip |-> Down], [host |-> Down, ip |-> Down]} :
            /\ Canonical(Asked(2024, months, FreshMonth, FreshMonths), net1, net2)
            /\ Click(2024, months, TRUE, <<net1, net2>>)

\* TickSeconds later
Tick ==
    /\ now + TickSeconds <= MaxClock
    /\ now' = now + TickSeconds
    /\ UNCHANGED <<df_full, prev_df, month_cache, months_cache, month_at, months_at,
                   requests, fetched, raw_data, status, last_click, selection,
                   email_click, pass_log>>

NextCache == RunFetchCache \/ Tick

\* the stores over time: clicks at moments TickSeconds apart, up to MaxClock
SpecCache == Init /\ [][NextCache]_vars

\* the data: a session within the ttl of its first click, which loads any
\* text of up to MaxTextRows lines of LinePool, and the passes over it
SpecData == Init /\ [][NextData]_vars

---------------------------------------------------------------------------
(* Properties.                                                             *)

\* the number of rows of a frame that satisfy Test
CountRows(rows, Test(_)) == Cardinality({i \in DOMAIN rows : Test(rows[i])})

\* rows without the row at position i
Without(rows, i) == SubSeq(rows, 1, i - 1) \o SubSeq(rows, i + 1, Len(rows))

\* the frames calculate_contribution_summary is called with in a pass
ucs_week == SelectSeq(df_week, LAMBDA r : r.Team = "UCS Bangalore")

ucs_month == SelectSeq(df_month, LAMBDA r : r.Team = "UCS Bangalore")

\* C1: in every row of the roster summaries of the selected week and month
\* and of the all-assignee table of the selected week, Net Contributions is
\* Gross minus Exempted and 0 <= Exempted <= Gross, so Net is never negative.
C1_NetIsGrossMinusExempted ==
    \A table \in {ucs_weekly_summary, ucs_monthly_summary, all_teams} :
        \A i \in DOMAIN table :
            /\ table[i].Net = table[i].Gross - table[i].Exempted
            /\ 0 <= table[i].Exempted
            /\ table[i].Exempted <= table[i].Gross
            /\ table[i].Net >= 0

\* a pass whose week holds, for one roster member, an exempted and a counted
\* contribution and a record of another type that carries an exemption tag
C1_Witness ==
    /\ selection.loaded
    /\ \E i \in DOMAIN ucs_weekly_summary :
           /\ ucs_weekly_summary[i].Gross = 2
           /\ ucs_weekly_summary[i].Exempted = 1
           /\ \E r \in Range(df_week) :
                  /\ r.Team_Member = Lower(ucs_weekly_summary[i].Team_Member)
                  /\ ~IsContribution(r)
                  /\ IsExempt(r)
    /\ all_teams # <<>>

\* the raw lines the rows of df_full were read from, when the last click
\* replaced the dataset: the lines of raw_data that have both dates
LoadedLines == SelectSeq(raw_data.text, HasDates)

\* C2: a loaded record counts toward net (_net_flag is 1) exactly when its
\* record type is WO, PTR or TR and no exemption keyword is a substring of
\* its lowercased tags; and in the roster summary a record of another type
\* adds 0 to gross, exempted and net whatever its tags, while a record of a
\* contributing type adds 1 to its assignee's gross, 1 to exempted exactly
\* when a keyword is in its tags, and its _net_flag to net.
C2_NetFlagRule ==
    /\ status = "replaced" =>
           /\ Len(LoadedLines) = Len(df_full)
           /\ \A i \in DOMAIN df_full :
                  NetFlag(df_full[i]) =
                      IF /\ LoadedLines[i].rec_type \in {"WO", "PTR", "TR"}
                         /\ \A kw \in {"atc-mon", "atc-fup", "atc-ign", "atc-sup"} :
                                ~IsSubstring(kw, Lower(LoadedLines[i].tags))
                      THEN 1 ELSE 0
    /\ \A i \in DOMAIN ucs_week :
           LET r      == ucs_week[i]
               with   == CalculateContributionSummary(ucs_week, ORIGINAL_CASE_TEAM)
               less   == CalculateContributionSummary(Without(ucs_week, i), ORIGINAL_CASE_TEAM)
               typed  == r.Record_Type \in {"WO", "PTR", "TR"}
               tagged == \E kw \in {"atc-mon", "atc-fup", "atc-ign", "atc-sup"} :
                             IsSubstring(kw, r.tags)
           IN  \A j \in DOMAIN with :
                   LET own == Lower(with[j].Team_Member) = r.Team_Member
                   IN  /\ with[j].Gross - less[j].Gross =
                              (IF own /\ typed THEN 1 ELSE 0)
                       /\ with[j].Exempted - less[j].Exempted =
                              (IF own /\ typed /\ tagged THEN 1 ELSE 0)
                       /\ with[j].Net - less[j].Net = (IF own THEN NetFlag(r) ELSE 0)

\* a loaded dataset with a counted record, a contributing record exempted by
\* an upper-case tag, and a record of another type with an exemption tag
C2_Witness ==
    /\ status = "replaced"
    /\ \E i, j, k \in DOMAIN df_full :
           /\ NetFlag(df_full[i]) = 1
           /\ IsContribution(df_full[j]) /\ NetFlag(df_full[j]) = 0
           /\ LoadedLines[j].tags # Lower(LoadedLines[j].tags)
           /\ ~IsContribution(df_full[k]) /\ IsExempt(df_full[k])
    /\ \E i \in DOMAIN ucs_week : ~IsContribution(ucs_week[i]) /\ IsExempt(ucs_week[i])

\* the texts of the months of the last click that returned a non-empty text,
\* in the order of the months
TextsFetched ==
    LET got == SelectSeq(fetched, LAMBDA f : Truthy(f.value))
    IN  [i \in DOMAIN got |-> got[i].value.text]

\* C3: when the body of fetch_months_csv runs, fetch_month_csv is called for
\* every month of the tuple, in order, whatever the earlier months returned;
\* the result is the join, in order, of the texts of exactly the months that
\* returned a non-empty text, and None exactly when there is no such month;
\* when the handler then loads the result, the rows of every such month are
\* in the dataset.
C3_MonthsIndependent ==
    last_click.ran =>
        /\ Len(fetched) = Len(last_click.months)
        /\ \A i \in DOMAIN fetched : fetched[i].month = last_click.months[i]
        /\ raw_data = IF TextsFetched = <<>> THEN None ELSE Some(Join(TextsFetched))
        /\ status \in {"replaced", "appended"} =>
               \A i \in DOMAIN fetched :
                   Truthy(fetched[i].value) =>
                       Range(ProcessLines(fetched[i].value.text)) \subseteq Range(df_full)

\* a click on months 1 and 2 where month 1 failed at both endpoints and month
\* 2 returned rows, which the handler loaded
C3_Witness ==
    /\ last_click.ran
    /\ last_click.months = <<1, 2>>
    /\ fetched[1].value = None
    /\ Truthy(fetched[2].value)
    /\ status = "replaced"
    /\ Range(ProcessLines(fetched[2].value.text)) # {}
    /\ Range(ProcessLines(fetched[2].value.text)) \subseteq Range(df_full)

\* C3 as stated: every month is attempted, and the result is None only when
\* no month succeeded.
C3_NoneOnlyWhenNoMonthSucceeded ==
    last_click.ran =>
        /\ Len(fetched) = Len(last_click.months)
        /\ raw_data = None => \A i \in DOMAIN fetched : ~fetched[i].value.some

\* the requests of the last click for one month
RequestsFor(month) == SelectSeq(requests, LAMBDA r : r.month = month)

\* C4: the requests of one (year, month) unit are the hostname request alone,
\* or the hostname request, failed, followed by one request to the address
\* with the Host header; None is returned only when both were issued and both
\* failed; a call answered from the store issues no request.
C4_HostnameThenIp ==
    /\ \A r \in Range(requests) :
           /\ r.year = last_click.year
           /\ \E f \in Range(fetched) : f.month = r.month /\ ~f.cached
    /\ \A f \in Range(fetched) :
           LET rs == RequestsFor(f.month)
           IN  IF f.cached THEN rs = <<>>
               ELSE /\ Len(rs) \in {1, 2}
                    /\ rs[1].via = "hostname" /\ ~rs[1].host_header
                    /\ Len(rs) = 2 <=> ~rs[1].ok
                    /\ Len(rs) = 2 => rs[2].via = "ip" /\ rs[2].host_header
                    /\ f.value = None <=> (Len(rs) = 2 /\ ~rs[2].ok)
                    /\ f.value # None => rs[Len(rs)].ok

\* a click on two months: the first answered by the address after the
\* hostname failed, the second failed at both
C4_Witness ==
    /\ Len(fetched) = 2
    /\ Len(requests) = 4
    /\ ~requests[1].ok /\ requests[2].ok /\ requests[2].via = "ip"
    /\ fetched[1].value.some
    /\ ~requests[3].ok /\ ~requests[4].ok
    /\ fetched[2].value = None

\* C5: after a click whose fetch returned no text, or whose text could not
\* be parsed or gave no rows, in either mode, the dataset is the one found
\* before the click, and the pass that follows works on it.
C5_FailedFetchKeepsDataset ==
    (status # "init" /\ (~Truthy(raw_data) \/ LoadAndProcess(raw_data.text) = <<>>)) =>
        /\ df_full = prev_df
        /\ selection \in Selections(df_full)

\* an append-mode click on a loaded dataset whose text could not be parsed
C5_Witness ==
    /\ status = "norows"
    /\ ~last_click.replace_data
    /\ Truthy(raw_data)
    /\ ParseRaises(raw_data.text)
    /\ df_full # <<>>
    /\ selection.loaded

NoDuplicates(rows) == \A i, j \in DOMAIN rows : i # j => rows[i] # rows[j]

\* the position of the first row of rows equal to row
FirstIndex(rows, row) == CHOOSE i \in DOMAIN rows :
    rows[i] = row /\ \A j \in 1 .. (i - 1) : rows[j] # row

\* C6: after a click that loaded rows, the dataset is exactly the newly
\* parsed rows when the click was in replace mode or found the dataset empty;
\* otherwise it is the rows found followed by the new rows with every repeat
\* of a row removed: no two rows are identical, every distinct row of the old
\* and the new data is present, in the order of first occurrence.
C6_ReplaceOrAppend ==
    LET new_df == LoadAndProcess(raw_data.text)
        both   == prev_df \o new_df
    IN  /\ status = "replaced" =>
               /\ last_click.replace_data \/ prev_df = <<>>
               /\ df_full = new_df
        /\ status = "appended" =>
               /\ ~last_click.replace_data /\ prev_df # <<>>
               /\ NoDuplicates(df_full)
               /\ Range(df_full) = Range(prev_df) \cup Range(new_df)
               /\ \A i, j \in DOMAIN df_full : i < j =>
                      FirstIndex(both, df_full[i]) < FirstIndex(both, df_full[j])
        /\ (status \in {"replaced", "appended"}) =
               (Truthy(raw_data) /\ new_df # <<>>)

\* an append onto a loaded dataset that brought a new row and a row already
\* loaded
C6_Witness ==
    LET new_df == LoadAndProcess(raw_data.text)
    IN  /\ status = "appended"
        /\ Range(new_df) \cap Range(prev_df) # {}
        /\ Range(new_df) \ Range(prev_df) # {}
        /\ Len(df_full) < Len(prev_df) + Len(new_df)

\* C6 as stated: after a click in append mode that loaded rows, the dataset
\* contains no two identical rows.
C6_AppendLeavesNoDuplicates ==
    (status \in {"replaced", "appended"} /\ ~last_click.replace_data) =>
        NoDuplicates(df_full)

\* the two shares of a pass: roster net, all-assignee net and percentage
Shares ==
    { [ucs |-> ucs_share.ucs_net_week, all |-> ucs_share.all_net_week,
       pct |-> ucs_share.pct_week],
      [ucs |-> ucs_share.ucs_net_month, all |-> ucs_share.all_net_month,
       pct |-> ucs_share.pct_month] }

\* C7: for the selected week and the selected month, the roster net total is
\* between 0 and the all-assignee net total of the same slice; the share is
\* roster net / all net * 100 and lies in [0, 100] when the all-assignee net
\* is positive, and is exactly 0 when the all-assignee net is 0.
C7_ShareWithinBounds ==
    \A s \in Shares :
        /\ 0 <= s.ucs /\ s.ucs <= s.all
        /\ s.pct.den > 0
        /\ s.all > 0 => /\ s.pct.num * s.all = s.ucs * 100 * s.pct.den
                        /\ 0 <= s.pct.num
                        /\ s.pct.num <= 100 * s.pct.den
        /\ s.all = 0 => s.pct.num = 0

\* a pass whose week holds counted records of the roster and of others, and
\* whose month holds records but none that counts
C7_Witness ==
    /\ selection.loaded
    /\ 0 < ucs_share.ucs_net_week
    /\ ucs_share.ucs_net_week < ucs_share.all_net_week
    /\ df_month # <<>>
    /\ ucs_share.all_net_month = 0

\* C8: each roster summary of a pass has exactly the roster members as rows,
\* one each, in the roster's spelling and order; a member's gross and
\* exempted are the numbers of that member's own contributing and exempted
\* records in the slice, 0 when there are none, so that an assignee outside
\* the roster neither appears nor adds to a member's counts.
C8_RosterRows ==
    \A pair \in {<<ucs_weekly_summary, df_week>>, <<ucs_monthly_summary, df_month>>} :
        LET table == pair[1]
            slice == pair[2]
        IN  /\ Len(table) = Len(ORIGINAL_CASE_TEAM)
            /\ \A i, j \in DOMAIN table :
                   i # j => table[i].Team_Member # table[j].Team_Member
            /\ \A i \in DOMAIN table :
                   LET mine(r) == r.Team_Member = Lower(ORIGINAL_CASE_TEAM[i])
                       typed(r) == r.Record_Type \in {"WO", "PTR", "TR"}
                   IN  /\ table[i].Team_Member = ORIGINAL_CASE_TEAM[i]
                       /\ table[i].Gross =
                              CountRows(slice, LAMBDA r : mine(r) /\ typed(r))
                       /\ table[i].Exempted =
                              CountRows(slice, LAMBDA r : mine(r) /\ typed(r) /\ IsExempt(r))
                       /\ table[i].Net = table[i].Gross - table[i].Exempted
                       /\ CountRows(slice, mine) = 0 =>
                              /\ table[i].Gross = 0
                              /\ table[i].Exempted = 0
                              /\ table[i].Net = 0

\* a pass whose week holds a contribution of a roster member spelled in
\* capitals and a contribution of an assignee outside the roster
C8_Witness ==
    /\ selection.loaded
    /\ \E i \in DOMAIN ucs_weekly_summary :
           /\ ucs_weekly_summary[i].Gross >= 1
           /\ ucs_weekly_summary[i].Team_Member # Lower(ucs_weekly_summary[i].Team_Member)
    /\ \E i \in DOMAIN ucs_weekly_summary : ucs_weekly_summary[i].Gross = 0
    /\ \E r \in Range(df_week) : r.Team = "Other Teams" /\ IsContribution(r)

\* C9: in the weekly and the monthly matrix of the selected year, every
\* roster member has a value for every time-bucket column.
C9_EveryRosterMemberInMatrix ==
    \A pivot \in {weekly_pivot, monthly_pivot} :
        \A name \in Range(ORIGINAL_CASE_TEAM), c \in Range(pivot.columns) :
            <<name, c>> \in DOMAIN pivot.cell

\* the Monday of the ISO week of a date
MondayOf(date) == Ordinal(date) - (IsoWeekday(date) - 1)

\* C10: the columns of the weekly matrix of the selected year are the
\* year_week labels of that year's roster records, each once, ordered by the
\* Monday of the ISO week its records end in; the columns of the monthly
\* matrix are the months of those records in calendar order.
C10_ColumnsChronological ==
    LET df_year == DfYear(df_full, selection.year)
        weeks   == weekly_pivot.columns
        months  == monthly_pivot.columns
    IN  /\ Range(weeks) = {r.year_week : r \in Range(df_year)}
        /\ Range(months) = {r.month : r \in Range(df_year)}
        /\ \A i, j \in DOMAIN weeks : i < j =>
               \A r1, r2 \in Range(df_year) :
                   r1.year_week = weeks[i] /\ r2.year_week = weeks[j] =>
                       MondayOf(r1.end_date) < MondayOf(r2.end_date)
        /\ \A i, j \in DOMAIN months : i < j =>
               \A r1, r2 \in Range(df_year) :
                   r1.month = months[i] /\ r2.month = months[j] =>
                       r1.end_date.y * 12 + r1.end_date.m
                           < r2.end_date.y * 12 + r2.end_date.m

\* a pass over a year whose records end in a one-digit week, a two-digit
\* week and, on 30 December, in week 1 of the next ISO year
C10_Witness ==
    /\ selection.loaded
    /\ selection.year = 2024
    /\ weekly_pivot.columns = <<"2024-W05", "2024-W12", "2025-W01">>
    /\ monthly_pivot.columns = <<"2024-02", "2024-03", "2024-12">>

\* C11: in a pass with the send button clicked and recipients selected, the
\* log has one entry per recipient, in the order selected: skipped when the
\* recipient has no address, else a send to the recipient's address that is
\* reported as failed exactly when that recipient's mail.Send() raised;
\* whatever the earlier entries, the log ends with the 'complete' step.
C11_BatchNotAborted ==
    (email_click.pressed /\ email_click.recipients # <<>>) =>
        LET recipients == email_click.recipients
            n          == Len(recipients)
        IN  /\ Len(pass_log) = n + 1
            /\ pass_log[n + 1].kind = "complete"
            /\ \A i \in 1 .. n :
                   /\ pass_log[i].who = recipients[i]
                   /\ EmailOf(recipients[i]) = "" => pass_log[i].kind = "skipped"
                   /\ EmailOf(recipients[i]) # "" =>
                          /\ pass_log[i].to = EmailOf(recipients[i])
                          /\ pass_log[i].kind =
                                 (IF email_click.outcomes[i] THEN "sent" ELSE "failed")

\* a batch of two whose first mail failed and whose second was sent
C11_Witness ==
    /\ email_click.pressed
    /\ Len(email_click.recipients) = 2
    /\ ~email_click.outcomes[1]
    /\ Len(pass_log) = 3
    /\ pass_log[1].kind = "failed"
    /\ pass_log[2].kind = "sent"
    /\ pass_log[3].kind = "complete"


\* the position of a view in the order main() calls the views
ViewPosition(view) == CHOOSE k \in DOMAIN ViewOrder : ViewOrder[k] = view

\* C14: display_target_analysis renames the net column of the weekly summary
\* and adds the needed column; display_top_performers and display_ucs_share,
\* which read 'Net Contributions', are called before it and
\* display_email_tool, which reads the renamed and the added column, after
\* it; no pass ends in a lookup of a missing column, and every mail of a
\* batch carries the member's net count and what is needed to reach the
\* target.
C14_ColumnsThereWhenRead ==
    /\ ViewPosition("display_top_performers") < ViewPosition("display_target_analysis")
    /\ ViewPosition("display_ucs_share") < ViewPosition("display_target_analysis")
    /\ ViewPosition("display_target_analysis") < ViewPosition("display_email_tool")
    /\ \A i \in DOMAIN pass_log :
           /\ pass_log[i].kind # "KeyError"
           /\ pass_log[i].kind \in {"sent", "failed"} =>
                  LET mine == CHOOSE j \in DOMAIN ucs_weekly_summary :
                                  ucs_weekly_summary[j].Team_Member = pass_log[i].who
                      net  == ucs_weekly_summary[mine].Net
                  IN  /\ pass_log[i].net = net
                      /\ net <= INDIVIDUAL_TARGET =>
                             pass_log[i].needed = INDIVIDUAL_TARGET - net
                      /\ net > INDIVIDUAL_TARGET => pass_log[i].needed = 0

\* a pass that sent a mail to a member with a net count in the selected week
C14_Witness ==
    /\ email_click.pressed
    /\ \E i \in DOMAIN pass_log :
           /\ pass_log[i].kind = "sent"
           /\ pass_log[i].net >= 1
           /\ pass_log[i].needed = INDIVIDUAL_TARGET - pass_log[i].net
    /\ pass_log[Len(pass_log)].kind = "complete"


\* the net count of a roster member in a frame, counted from its rows
NetCountIn(frame, name) ==
    Cardinality({i \in DOMAIN frame :
                    /\ frame[i].Team_Member = Lower(name)
                    /\ frame[i].Record_Type \in {"WO", "PTR", "TR"}
                    /\ ~ContainsExemption(frame[i].tags)})

\* C12: the top contributor shown for the selected week and the selected
\* month, and the one of every row of the yearly monthly tops, is a roster
\* member whose net count in that bucket is the count reported, and no roster
\* member has a larger net count in the bucket; for the week and the month a
\* top is shown exactly when some roster member has a positive net count.
C12_TopIsMaximum ==
    /\ \A pair \in {<<top_performers.week, df_week>>, <<top_performers.month, df_month>>} :
           LET top   == pair[1]
               frame == pair[2]
           IN  /\ top.shown <=>
                      (selection.loaded /\
                       \E name \in Range(ORIGINAL_CASE_TEAM) : NetCountIn(frame, name) > 0)
               /\ top.shown =>
                      /\ top.contributor \in Range(ORIGINAL_CASE_TEAM)
                      /\ NetCountIn(frame, top.contributor) = top.count
                      /\ \A name \in Range(ORIGINAL_CASE_TEAM) :
                             NetCountIn(frame, name) <= top.count
    /\ \A k \in DOMAIN tops :
           LET bucket == SelectSeq(df_full, LAMBDA r : r.month = tops[k].month)
           IN  /\ tops[k].top_contributor \in Range(ORIGINAL_CASE_TEAM)
               /\ NetCountIn(bucket, tops[k].top_contributor) = tops[k].top_net
               /\ \A name \in Range(ORIGINAL_CASE_TEAM) :
                      NetCountIn(bucket, name) <= tops[k].top_net
    /\ {tops[k].month : k \in DOMAIN tops} =
           {r.month : r \in Range(DfYear(df_full, selection.year))}

\* a pass that shows a top of the week, over a year with a month in which
\* two roster members have records and only one of them a net count
C12_Witness ==
    /\ selection.loaded
    /\ top_performers.week.shown
    /\ top_performers.week.count >= 1
    /\ \E k \in DOMAIN tops :
           /\ tops[k].top_net >= 1
           /\ \E r \in Range(DfYear(df_full, selection.year)) :
                  /\ r.month = tops[k].month
                  /\ DisplayName(r.Team_Member) # tops[k].top_contributor


\* C13: a step changes the loaded dataset only if it is a click whose fetch
\* loaded rows, and then the dataset is what the handler stored: the parsed
\* rows, or the rows found with the parsed rows appended and repeats
\* dropped; every pass, with or without the send button, leaves the dataset
\* as it found it.
C13_OnlyFetchChangesDataset ==
    [][ df_full' # df_full =>
            /\ status' \in {"replaced", "appended"}
            /\ Truthy(raw_data')
            /\ df_full' = IF status' = "replaced"
                          THEN LoadAndProcess(raw_data'.text)
                          ELSE AppendDataset(df_full, LoadAndProcess(raw_data'.text)) ]_vars

\* a pass with the send button clicked, on a week other than the one the
\* fetch left selected, over the dataset as the fetch stored it
C13_Witness ==
    /\ status = "replaced"
    /\ df_full = LoadAndProcess(raw_data.text)
    /\ email_click.pressed
    /\ pass_log # <<>>
    /\ selection.week # Latest({r.year_week : r \in Range(df_full)})


\* C15: every cell (m, w) of the weekly matrix of the selected year equals
\* the Net Contributions the weekly roster summary reports for m when w is
\* the selected week of the same dataset.
C15_WeeklyViewAgreesWithMatrix ==
    \A i \in DOMAIN weekly_pivot.index, j \in DOMAIN weekly_pivot.columns :
        LET name    == weekly_pivot.index[i]
            week    == weekly_pivot.columns[j]
            summary == WeeklySummaryOf(df_full, [selection EXCEPT !.week = week])
        IN  weekly_pivot.cell[<<name, week>>] = RowOf(summary, name).Net


\* C16: in a click, a call of fetch_month_csv for a (year, month) stored
\* less than 600 seconds before issues no request and returns the stored
\* outcome, None included, and the entry keeps its age; a call for a
\* (year, month) that is not stored, or was stored 600 seconds before or
\* earlier, issues requests and stores what it returns, None included, at
\* the present time.
C16_MonthCachedWhateverOutcome ==
    [][ now' = now =>
            \A i \in DOMAIN fetched' :
                LET f     == fetched'[i]
                    key   == <<last_click'.year, f.month>>
                    fresh == key \in DOMAIN month_cache /\ now - month_at[key] < 600
                    asked == SelectSeq(requests', LAMBDA r : r.month = f.month)
                IN  /\ key \in DOMAIN month_cache'
                    /\ month_cache'[key] = f.value
                    /\ fresh => /\ f.cached
                                /\ f.value = month_cache[key]
                                /\ asked = <<>>
                                /\ month_at'[key] = month_at[key]
                    /\ ~fresh => /\ ~f.cached
                                 /\ asked # <<>>
                                 /\ month_at'[key] = now ]_vars

\* a click on months 1 and 2, 300 seconds after a click on month 2 that
\* failed: month 2 is answered None from the store, without a request
C16_Witness ==
    /\ last_click.ran
    /\ last_click.months = <<1, 2>>
    /\ fetched[2].cached
    /\ fetched[2].value = None
    /\ RequestsFor(2) = <<>>
    /\ now - month_at[<<2024, 2>>] > 0
    /\ now - month_at[<<2024, 2>>] < CACHE_TTL
    /\ ~fetched[1].cached

=============================================================================
